---- MODULE Spec2Model ----
(***************************************************************************)
(* Model of libnetwork's controller / network / endpoint registry          *)
(* (network.go).  Every goroutine calling into the API is a thread with a  *)
(* program counter; every critical section of the two mutexes              *)
(* (controller.Mutex, network.Mutex) is taken and released by explicit     *)
(* steps, and every driver call is a step of its own whose outcome is      *)
(* chosen nondeterministically.                                            *)
(***************************************************************************)
EXTENDS Integers, Sequences, FiniteSets, TLC

\* ------------------------------------------------------------------ bounds
\* The ids drawn for the networks and endpoints that get stored.
MaxIds == 3

\* The networks and endpoints stored in a run that is checked for progress.
MaxFairIds == 2

Threads == {"t1", "t2"}
Names == {"", "net1"}
NetworkTypes == {"bridge", "bogus"}

NetIds == 1..MaxIds
EpIds == 1..MaxIds
Free == "free"
NoId == 0

VARIABLES
    networks,    \* controller.networks: the ids registered in the table
    clock,       \* controller.Mutex: its holder, or Free
    netName,     \* network.name, by network id; a network is given its model
                 \* id when it is stored, its random id being an opaque token
    endpoints,   \* network.endpoints, by network id
    nlock,       \* network.Mutex, by network id
    epNet,       \* endpoint.network, by endpoint id (given when stored)
    drvNets,     \* the networks the driver holds: CreateNetwork succeeded and
                 \* no DeleteNetwork has succeeded since
    drvEps,      \* the endpoints the driver holds, likewise
    th,          \* per goroutine: position and locals of the running call
    pre,         \* history: the tables as the running call found them, for
                 \* calls made one at a time
    hist         \* history: the call that changes a table and returned last,
                 \* with its results, for calls made one at a time

vars == <<networks, clock, netName, endpoints, nlock, epNet, drvNets, drvEps,
          th, pre, hist>>

\* ----------------------------------------------------------------- helpers
drivers == {"bridge"}

Idle ==
    [pc |-> "idle", op |-> "none", n |-> NoId, e |-> NoId, nm |-> "",
     numEps |-> 0, err |-> "none", res |-> "none", ret |-> NoId,
     list |-> <<>>, i |-> 0, seen |-> <<>>, out |-> "none"]

NoCall == [op |-> "none", n |-> NoId, e |-> NoId,
           err |-> "none", res |-> "none", ret |-> NoId]

Summary(r) == [op |-> r.op, n |-> r.n, e |-> r.e,
               err |-> r.err, res |-> r.res, ret |-> r.ret]

Snapshot == [nets |-> networks, eps |-> endpoints, names |-> netName]

Set(t, r) == th' = [th EXCEPT ![t] = r]

At(t, l) == th[t].pc = l

Finish(r, res, ret) == [r EXCEPT !.pc = "ret", !.res = res, !.ret = ret]

Perms(S) ==
    {s \in [1..Cardinality(S) -> S] : \A a, b \in DOMAIN s : s[a] = s[b] => a = b}

\* The networks and the endpoints a caller can hold a reference to: the
\* ones that were stored in a table, registered now or not.
Handles == 1..Len(netName)

EpHandles == 1..Len(epNet)

Init ==
    /\ networks = {}
    /\ clock = Free
    /\ netName = <<>>
    /\ endpoints = [n \in NetIds |-> {}]
    /\ nlock = [n \in NetIds |-> Free]
    /\ epNet = <<>>
    /\ drvNets = {}
    /\ drvEps = {}
    /\ th = [t \in Threads |-> Idle]
    /\ pre = [nets |-> {}, eps |-> [n \in NetIds |-> {}], names |-> <<>>]
    /\ hist = NoCall

\* ------------------------------------------------- controller.NewNetwork
\* The networks and endpoints stored so far, and the calls under way that
\* may still store one.
Stored == Len(netName) + Len(epNet)

Pending ==
    Cardinality({u \in Threads : /\ th[u].op \in {"NewNetwork", "CreateEndpoint"}
                                 /\ th[u].pc # "ret"})

\* the comparison of the scan inverted
NameInUseInverted(nm) == \E n \in networks : netName[n] # nm

\* for _, n := range c.networks { if n.name == name ... }
NameInUse(nm) == \E n \in networks : netName[n] = nm

\* The object a successful driver call created is named when it is stored:
\* from then on the driver holds it under that id.
DriverHolds(held, id, err) == IF err = "nil" THEN held \cup {id} ELSE held

CallNewNetwork(t) ==
    /\ At(t, "idle")
    /\ \E ty \in NetworkTypes, nm \in Names :
          IF ty \in drivers
          THEN /\ Stored + Pending < MaxIds
               /\ Set(t, [Idle EXCEPT !.pc = "nn_lock", !.op = "NewNetwork", !.nm = nm])
          ELSE Set(t, [Finish(Idle, "ErrInvalidNetworkDriver", NoId)
                          EXCEPT !.op = "NewNetwork", !.nm = nm])
    /\ UNCHANGED <<networks, clock, netName, endpoints, nlock, epNet, drvNets, drvEps>>

NnLock(t) ==
    /\ At(t, "nn_lock")
    /\ clock = Free
    /\ clock' = t
    /\ Set(t, [th[t] EXCEPT !.pc = "nn_scan"])
    /\ UNCHANGED <<networks, netName, endpoints, nlock, epNet, drvNets, drvEps>>

NnScan(t) ==
    /\ At(t, "nn_scan")
    /\ clock' = Free
    /\ IF NameInUse(th[t].nm)
       THEN Set(t, Finish(th[t], "NetworkNameError", NoId))
       ELSE Set(t, [th[t] EXCEPT !.pc = "nn_driver"])
    /\ UNCHANGED <<networks, netName, endpoints, nlock, epNet, drvNets, drvEps>>

\* the error of Driver.CreateNetwork not returned
NnDriverIgnoringError(t) ==
    /\ At(t, "nn_driver")
    /\ \E ok \in BOOLEAN :
          Set(t, [th[t] EXCEPT !.pc = "nn_lock2", !.err = IF ok THEN "nil" ELSE "fail"])
    /\ UNCHANGED <<networks, clock, netName, endpoints, nlock, epNet, drvNets, drvEps>>

NnDriver(t) ==
    /\ At(t, "nn_driver")
    /\ \E ok \in BOOLEAN :
          IF ok
          THEN Set(t, [th[t] EXCEPT !.pc = "nn_lock2", !.err = "nil"])
          ELSE Set(t, Finish([th[t] EXCEPT !.err = "fail"], "DriverError", NoId))
    /\ UNCHANGED <<networks, clock, netName, endpoints, nlock, epNet, drvNets, drvEps>>

NnLock2(t) ==
    /\ At(t, "nn_lock2")
    /\ clock = Free
    /\ clock' = t
    /\ Set(t, [th[t] EXCEPT !.pc = "nn_store"])
    /\ UNCHANGED <<networks, netName, endpoints, nlock, epNet, drvNets, drvEps>>

\* the name checked again in the critical section of the insertion
NnStoreChecked(t) ==
    /\ At(t, "nn_store")
    /\ clock' = Free
    /\ IF NameInUse(th[t].nm)
       THEN /\ Set(t, Finish(th[t], "NetworkNameError", NoId))
            /\ UNCHANGED <<networks, netName, drvNets>>
       ELSE /\ networks' = networks \cup {Len(netName) + 1}
            /\ netName' = Append(netName, th[t].nm)
            /\ drvNets' = DriverHolds(drvNets, Len(netName) + 1, th[t].err)
            /\ Set(t, Finish([th[t] EXCEPT !.n = Len(netName) + 1], "nil",
                              Len(netName) + 1))
    /\ UNCHANGED <<endpoints, nlock, epNet, drvEps>>

NnStore(t) ==
    /\ At(t, "nn_store")
    /\ networks' = networks \cup {Len(netName) + 1}
    /\ netName' = Append(netName, th[t].nm)
    /\ drvNets' = DriverHolds(drvNets, Len(netName) + 1, th[t].err)
    /\ clock' = Free
    /\ Set(t, Finish([th[t] EXCEPT !.n = Len(netName) + 1], "nil", Len(netName) + 1))
    /\ UNCHANGED <<endpoints, nlock, epNet, drvEps>>

\* ------------------------------------------------------- network.Delete
CallDelete(t) ==
    /\ At(t, "idle")
    /\ \E n \in Handles :
          Set(t, [Idle EXCEPT !.pc = "nd_lock", !.op = "Delete", !.n = n])
    /\ UNCHANGED <<networks, clock, netName, endpoints, nlock, epNet, drvNets, drvEps>>

NdLock(t) ==
    /\ At(t, "nd_lock")
    /\ clock = Free
    /\ clock' = t
    /\ Set(t, [th[t] EXCEPT !.pc = "nd_present"])
    /\ UNCHANGED <<networks, netName, endpoints, nlock, epNet, drvNets, drvEps>>

\* the presence test left out
NdPresentSkipped(t) ==
    /\ At(t, "nd_present")
    /\ Set(t, [th[t] EXCEPT !.pc = "nd_nlock"])
    /\ UNCHANGED <<networks, clock, netName, endpoints, nlock, epNet, drvNets, drvEps>>

NdPresent(t) ==
    /\ At(t, "nd_present")
    /\ IF th[t].n \notin networks
       THEN /\ clock' = Free
            /\ Set(t, Finish(th[t], "UnknownNetworkError", NoId))
       ELSE /\ Set(t, [th[t] EXCEPT !.pc = "nd_nlock"])
            /\ UNCHANGED clock
    /\ UNCHANGED <<networks, netName, endpoints, nlock, epNet, drvNets, drvEps>>

NdNLock(t) ==
    /\ At(t, "nd_nlock")
    /\ nlock[th[t].n] = Free
    /\ nlock' = [nlock EXCEPT ![th[t].n] = t]
    /\ Set(t, [th[t] EXCEPT !.pc = "nd_count"])
    /\ UNCHANGED <<networks, clock, netName, endpoints, epNet, drvNets, drvEps>>

\* n.Unlock() left out after the count
NdCountKeepsLock(t) ==
    /\ At(t, "nd_count")
    /\ Set(t, [th[t] EXCEPT !.pc = "nd_check",
                            !.numEps = Cardinality(endpoints[th[t].n])])
    /\ UNCHANGED <<networks, clock, netName, endpoints, nlock, epNet, drvNets, drvEps>>

NdCount(t) ==
    /\ At(t, "nd_count")
    /\ nlock' = [nlock EXCEPT ![th[t].n] = Free]
    /\ Set(t, [th[t] EXCEPT !.pc = "nd_check",
                            !.numEps = Cardinality(endpoints[th[t].n])])
    /\ UNCHANGED <<networks, clock, netName, endpoints, epNet, drvNets, drvEps>>

\* the count compared with one instead of zero
HasActiveEndpointsOffByOne(numEps) == numEps > 1

\* if numEps != 0
HasActiveEndpoints(numEps) == numEps # 0

\* the network left in the table until the driver has deleted it
NdCheckNoRemoval(t) ==
    /\ At(t, "nd_check")
    /\ clock' = Free
    /\ IF HasActiveEndpoints(th[t].numEps)
       THEN Set(t, Finish(th[t], "ActiveEndpointsError", NoId))
       ELSE Set(t, [th[t] EXCEPT !.pc = "nd_driver"])
    /\ UNCHANGED <<networks, netName, endpoints, nlock, epNet, drvNets, drvEps>>

\* the controller lock kept across the driver call
NdCheckKeepsLock(t) ==
    /\ At(t, "nd_check")
    /\ IF HasActiveEndpoints(th[t].numEps)
       THEN /\ Set(t, Finish(th[t], "ActiveEndpointsError", NoId))
            /\ clock' = Free
            /\ UNCHANGED networks
       ELSE /\ networks' = networks \ {th[t].n}
            /\ Set(t, [th[t] EXCEPT !.pc = "nd_driver"])
            /\ UNCHANGED clock
    /\ UNCHANGED <<netName, endpoints, nlock, epNet, drvNets, drvEps>>

NdCheck(t) ==
    /\ At(t, "nd_check")
    /\ clock' = Free
    /\ IF HasActiveEndpoints(th[t].numEps)
       THEN /\ Set(t, Finish(th[t], "ActiveEndpointsError", NoId))
            /\ UNCHANGED networks
       ELSE /\ networks' = networks \ {th[t].n}
            /\ Set(t, [th[t] EXCEPT !.pc = "nd_driver"])
    /\ UNCHANGED <<netName, endpoints, nlock, epNet, drvNets, drvEps>>

\* the deferred function testing err == nil instead of err != nil
NdDriverRestoresOnSuccess(t) ==
    /\ At(t, "nd_driver")
    /\ \E ok \in BOOLEAN :
          IF ok
          THEN /\ Set(t, [th[t] EXCEPT !.pc = "nd_relock", !.err = "nil"])
               /\ drvNets' = drvNets \ {th[t].n}
          ELSE /\ Set(t, Finish([th[t] EXCEPT !.err = "fail"], "DriverError", NoId))
               /\ UNCHANGED drvNets
    /\ UNCHANGED <<networks, clock, netName, endpoints, nlock, epNet, drvEps>>

NdDriver(t) ==
    /\ At(t, "nd_driver")
    /\ \E ok \in BOOLEAN :
          IF ok
          THEN /\ Set(t, Finish([th[t] EXCEPT !.err = "nil"], "nil", NoId))
               /\ drvNets' = drvNets \ {th[t].n}
          ELSE /\ Set(t, [th[t] EXCEPT !.pc = "nd_relock", !.err = "fail"])
               /\ UNCHANGED drvNets
    /\ UNCHANGED <<networks, clock, netName, endpoints, nlock, epNet, drvEps>>

NdRelock(t) ==
    /\ At(t, "nd_relock")
    /\ clock = Free
    /\ clock' = t
    /\ Set(t, [th[t] EXCEPT !.pc = "nd_restore"])
    /\ UNCHANGED <<networks, netName, endpoints, nlock, epNet, drvNets, drvEps>>

\* the deferred function not putting the network back
NotRestoredNetworks(n) == networks

\* n.ctrlr.networks[n.id] = n in the deferred function
RestoredNetworks(n) == networks \cup {n}

NdRestore(t) ==
    /\ At(t, "nd_restore")
    /\ networks' = RestoredNetworks(th[t].n)
    /\ clock' = Free
    /\ Set(t, Finish(th[t], "DriverError", NoId))
    /\ UNCHANGED <<netName, endpoints, nlock, epNet, drvNets, drvEps>>

\* ------------------------------------------------ network.CreateEndpoint
CallCreateEndpoint(t) ==
    /\ At(t, "idle")
    /\ Stored + Pending < MaxIds
    /\ \E n \in Handles :
          Set(t, [Idle EXCEPT !.pc = "ce_driver", !.op = "CreateEndpoint", !.n = n])
    /\ UNCHANGED <<networks, clock, netName, endpoints, nlock, epNet, drvNets, drvEps>>

\* the error of Driver.CreateEndpoint not returned
CeDriverIgnoringError(t) ==
    /\ At(t, "ce_driver")
    /\ \E ok \in BOOLEAN :
          Set(t, [th[t] EXCEPT !.pc = "ce_lock", !.err = IF ok THEN "nil" ELSE "fail"])
    /\ UNCHANGED <<networks, clock, netName, endpoints, nlock, epNet, drvNets, drvEps>>

CeDriver(t) ==
    /\ At(t, "ce_driver")
    /\ \E ok \in BOOLEAN :
          IF ok
          THEN Set(t, [th[t] EXCEPT !.pc = "ce_lock", !.err = "nil"])
          ELSE Set(t, Finish([th[t] EXCEPT !.err = "fail"], "DriverError", NoId))
    /\ UNCHANGED <<networks, clock, netName, endpoints, nlock, epNet, drvNets, drvEps>>

CeLock(t) ==
    /\ At(t, "ce_lock")
    /\ nlock[th[t].n] = Free
    /\ nlock' = [nlock EXCEPT ![th[t].n] = t]
    /\ Set(t, [th[t] EXCEPT !.pc = "ce_store"])
    /\ UNCHANGED <<networks, clock, netName, endpoints, epNet, drvNets, drvEps>>

CeStore(t) ==
    /\ At(t, "ce_store")
    /\ endpoints' = [endpoints EXCEPT ![th[t].n] = @ \cup {Len(epNet) + 1}]
    /\ epNet' = Append(epNet, th[t].n)
    /\ drvEps' = DriverHolds(drvEps, Len(epNet) + 1, th[t].err)
    /\ nlock' = [nlock EXCEPT ![th[t].n] = Free]
    /\ Set(t, Finish([th[t] EXCEPT !.e = Len(epNet) + 1], "nil", Len(epNet) + 1))
    /\ UNCHANGED <<networks, clock, netName, drvNets>>

\* ------------------------------------------------------ endpoint.Delete
CallEpDelete(t) ==
    /\ At(t, "idle")
    /\ \E e \in EpHandles :
          Set(t, [Idle EXCEPT !.pc = "ed_lock", !.op = "EpDelete",
                              !.n = epNet[e], !.e = e])
    /\ UNCHANGED <<networks, clock, netName, endpoints, nlock, epNet, drvNets, drvEps>>

EdLock(t) ==
    /\ At(t, "ed_lock")
    /\ nlock[th[t].n] = Free
    /\ nlock' = [nlock EXCEPT ![th[t].n] = t]
    /\ Set(t, [th[t] EXCEPT !.pc = "ed_present"])
    /\ UNCHANGED <<networks, clock, netName, endpoints, epNet, drvNets, drvEps>>

\* the presence test left out
EdPresentSkipped(t) ==
    /\ At(t, "ed_present")
    /\ nlock' = [nlock EXCEPT ![th[t].n] = Free]
    /\ endpoints' = [endpoints EXCEPT ![th[t].n] = @ \ {th[t].e}]
    /\ Set(t, [th[t] EXCEPT !.pc = "ed_driver"])
    /\ UNCHANGED <<networks, clock, netName, epNet, drvNets, drvEps>>

EdPresent(t) ==
    /\ At(t, "ed_present")
    /\ nlock' = [nlock EXCEPT ![th[t].n] = Free]
    /\ IF th[t].e \notin endpoints[th[t].n]
       THEN /\ Set(t, Finish(th[t], "UnknownEndpointError", NoId))
            /\ UNCHANGED endpoints
       ELSE /\ endpoints' = [endpoints EXCEPT ![th[t].n] = @ \ {th[t].e}]
            /\ Set(t, [th[t] EXCEPT !.pc = "ed_driver"])
    /\ UNCHANGED <<networks, clock, netName, epNet, drvNets, drvEps>>

\* the deferred function testing err == nil instead of err != nil
EdDriverRestoresOnSuccess(t) ==
    /\ At(t, "ed_driver")
    /\ \E ok \in BOOLEAN :
          IF ok
          THEN /\ Set(t, [th[t] EXCEPT !.pc = "ed_relock", !.err = "nil"])
               /\ drvEps' = drvEps \ {th[t].e}
          ELSE /\ Set(t, Finish([th[t] EXCEPT !.err = "fail"], "DriverError", NoId))
               /\ UNCHANGED drvEps
    /\ UNCHANGED <<networks, clock, netName, endpoints, nlock, epNet, drvNets>>

EdDriver(t) ==
    /\ At(t, "ed_driver")
    /\ \E ok \in BOOLEAN :
          IF ok
          THEN /\ Set(t, Finish([th[t] EXCEPT !.err = "nil"], "nil", NoId))
               /\ drvEps' = drvEps \ {th[t].e}
          ELSE /\ Set(t, [th[t] EXCEPT !.pc = "ed_relock", !.err = "fail"])
               /\ UNCHANGED drvEps
    /\ UNCHANGED <<networks, clock, netName, endpoints, nlock, epNet, drvNets>>

EdRelock(t) ==
    /\ At(t, "ed_relock")
    /\ nlock[th[t].n] = Free
    /\ nlock' = [nlock EXCEPT ![th[t].n] = t]
    /\ Set(t, [th[t] EXCEPT !.pc = "ed_restore"])
    /\ UNCHANGED <<networks, clock, netName, endpoints, epNet, drvNets, drvEps>>

\* the deferred function not putting the endpoint back
NotRestoredEndpoints(n, e) == endpoints

\* n.endpoints[ep.id] = ep in the deferred function
RestoredEndpoints(n, e) == [endpoints EXCEPT ![n] = @ \cup {e}]

EdRestore(t) ==
    /\ At(t, "ed_restore")
    /\ endpoints' = RestoredEndpoints(th[t].n, th[t].e)
    /\ nlock' = [nlock EXCEPT ![th[t].n] = Free]
    /\ Set(t, Finish(th[t], "DriverError", NoId))
    /\ UNCHANGED <<networks, clock, netName, epNet, drvNets, drvEps>>

\* ------------------------------------------------ controller.NetworkByID
CallNetworkByID(t) ==
    /\ At(t, "idle")
    /\ \E id \in Handles \cup {Len(netName) + 1} :
          Set(t, [Idle EXCEPT !.pc = "bi_lock", !.op = "NetworkByID", !.n = id])
    /\ UNCHANGED <<networks, clock, netName, endpoints, nlock, epNet, drvNets, drvEps>>

BiLock(t) ==
    /\ At(t, "bi_lock")
    /\ clock = Free
    /\ clock' = t
    /\ Set(t, [th[t] EXCEPT !.pc = "bi_get"])
    /\ UNCHANGED <<networks, netName, endpoints, nlock, epNet, drvNets, drvEps>>

\* the ok of the map lookup not tested
NetworkLookupUnchecked(id) == id

\* if n, ok := c.networks[types.UUID(id)]; ok { return n }; return nil
NetworkLookup(id) == IF id \in networks THEN id ELSE NoId

BiGet(t) ==
    /\ At(t, "bi_get")
    /\ clock' = Free
    /\ Set(t, Finish(th[t], "nil", NetworkLookup(th[t].n)))
    /\ UNCHANGED <<networks, netName, endpoints, nlock, epNet, drvNets, drvEps>>

\* -------------------------------------------------- network.EndpointByID
CallEndpointByID(t) ==
    /\ At(t, "idle")
    /\ \E n \in Handles, id \in EpHandles \cup {Len(epNet) + 1} :
          Set(t, [Idle EXCEPT !.pc = "be_lock", !.op = "EndpointByID",
                              !.n = n, !.e = id])
    /\ UNCHANGED <<networks, clock, netName, endpoints, nlock, epNet, drvNets, drvEps>>

BeLock(t) ==
    /\ At(t, "be_lock")
    /\ nlock[th[t].n] = Free
    /\ nlock' = [nlock EXCEPT ![th[t].n] = t]
    /\ Set(t, [th[t] EXCEPT !.pc = "be_get"])
    /\ UNCHANGED <<networks, clock, netName, endpoints, epNet, drvNets, drvEps>>

\* if e, ok := n.endpoints[types.UUID(id)]; ok { return e }; return nil
EndpointLookup(n, id) == IF id \in endpoints[n] THEN id ELSE NoId

BeGet(t) ==
    /\ At(t, "be_get")
    /\ nlock' = [nlock EXCEPT ![th[t].n] = Free]
    /\ Set(t, Finish(th[t], "nil", EndpointLookup(th[t].n, th[t].e)))
    /\ UNCHANGED <<networks, clock, netName, endpoints, epNet, drvNets, drvEps>>

\* ---------- controller.NetworkByName, through WalkNetworks and Networks
CallNetworkByName(t) ==
    /\ At(t, "idle")
    /\ \E nm \in Names :
          IF nm # ""
          THEN Set(t, [Idle EXCEPT !.pc = "ns_lock", !.op = "NetworkByName", !.nm = nm])
          ELSE Set(t, [Finish(Idle, "nil", NoId) EXCEPT !.op = "NetworkByName", !.nm = nm])
    /\ UNCHANGED <<networks, clock, netName, endpoints, nlock, epNet, drvNets, drvEps>>

NsLock(t) ==
    /\ At(t, "ns_lock")
    /\ clock = Free
    /\ clock' = t
    /\ Set(t, [th[t] EXCEPT !.pc = "ns_copy"])
    /\ UNCHANGED <<networks, netName, endpoints, nlock, epNet, drvNets, drvEps>>

\* Networks(): the map is copied in the iteration order of the map, any order
NsCopy(t) ==
    /\ At(t, "ns_copy")
    /\ clock' = Free
    /\ \E l \in Perms(networks) :
          Set(t, [th[t] EXCEPT !.pc = "wn_loop", !.list = l, !.i = 1])
    /\ UNCHANGED <<networks, netName, endpoints, nlock, epNet, drvNets, drvEps>>

\* the walker of NetworkByName: current.Name() == name
NameWalker(current, nm) == netName[current] = nm

\* What the walker passed to the walk may answer for current: the closure of
\* NetworkByName answers by the name, a caller's walker answers anything.
WalkerResults(t, current) ==
    IF th[t].op = "NetworkByName"
    THEN {NameWalker(current, th[t].nm)}
    ELSE BOOLEAN

Invoked(current, stop) == [elt |-> current, stop |-> stop]

\* the loop going on after the walker has returned true
WnLoopIgnoringStop(t) ==
    /\ At(t, "wn_loop")
    /\ IF th[t].i > Len(th[t].list)
       THEN Set(t, [Finish(th[t], "nil", th[t].ret) EXCEPT !.out = "false"])
       ELSE \E stop \in WalkerResults(t, th[t].list[th[t].i]) :
               Set(t, [th[t] EXCEPT
                          !.i = @ + 1,
                          !.seen = Append(@, Invoked(th[t].list[th[t].i], stop))])
    /\ UNCHANGED <<networks, clock, netName, endpoints, nlock, epNet, drvNets, drvEps>>

\* the loop returning false where it returns true
WnLoopReturnsFalse(t) ==
    /\ At(t, "wn_loop")
    /\ IF th[t].i > Len(th[t].list)
       THEN Set(t, [Finish(th[t], "nil", NoId) EXCEPT !.out = "false"])
       ELSE \E stop \in WalkerResults(t, th[t].list[th[t].i]) :
               LET r == [th[t] EXCEPT
                            !.seen = Append(@, Invoked(th[t].list[th[t].i], stop))]
               IN  IF stop
                   THEN Set(t, [Finish(r, "nil", NoId) EXCEPT !.out = "false"])
                   ELSE Set(t, [r EXCEPT !.i = @ + 1])
    /\ UNCHANGED <<networks, clock, netName, endpoints, nlock, epNet, drvNets, drvEps>>

\* WalkNetworks: one turn of the loop over the list Networks() returned; ret
\* is the network the closure of NetworkByName captured.
WnLoop(t) ==
    /\ At(t, "wn_loop")
    /\ IF th[t].i > Len(th[t].list)
       THEN Set(t, [Finish(th[t], "nil", NoId) EXCEPT !.out = "false"])
       ELSE \E stop \in WalkerResults(t, th[t].list[th[t].i]) :
               LET r == [th[t] EXCEPT
                            !.seen = Append(@, Invoked(th[t].list[th[t].i], stop))]
               IN  IF stop
                   THEN Set(t, [Finish(r, "nil",
                                       IF th[t].op = "NetworkByName"
                                       THEN th[t].list[th[t].i] ELSE NoId)
                                   EXCEPT !.out = "true"])
                   ELSE Set(t, [r EXCEPT !.i = @ + 1])
    /\ UNCHANGED <<networks, clock, netName, endpoints, nlock, epNet, drvNets, drvEps>>

CallWalkNetworks(t) ==
    /\ At(t, "idle")
    /\ Set(t, [Idle EXCEPT !.pc = "ns_lock", !.op = "WalkNetworks"])
    /\ UNCHANGED <<networks, clock, netName, endpoints, nlock, epNet, drvNets, drvEps>>

\* ---------------------------------------------------------- WalkEndpoints
CallWalkEndpoints(t) ==
    /\ At(t, "idle")
    /\ \E n \in Handles :
          Set(t, [Idle EXCEPT !.pc = "es_lock", !.op = "WalkEndpoints", !.n = n])
    /\ UNCHANGED <<networks, clock, netName, endpoints, nlock, epNet, drvNets, drvEps>>

EsLock(t) ==
    /\ At(t, "es_lock")
    /\ nlock[th[t].n] = Free
    /\ nlock' = [nlock EXCEPT ![th[t].n] = t]
    /\ Set(t, [th[t] EXCEPT !.pc = "es_copy"])
    /\ UNCHANGED <<networks, clock, netName, endpoints, epNet, drvNets, drvEps>>

\* Endpoints(): the map is copied in the iteration order of the map, any order
EsCopy(t) ==
    /\ At(t, "es_copy")
    /\ nlock' = [nlock EXCEPT ![th[t].n] = Free]
    /\ \E l \in Perms(endpoints[th[t].n]) :
          Set(t, [th[t] EXCEPT !.pc = "we_loop", !.list = l, !.i = 1])
    /\ UNCHANGED <<networks, clock, netName, endpoints, epNet, drvNets, drvEps>>

\* WalkEndpoints: one turn of the loop; the function has no result
WeLoop(t) ==
    /\ At(t, "we_loop")
    /\ IF th[t].i > Len(th[t].list)
       THEN Set(t, [Finish(th[t], "nil", NoId) EXCEPT !.out = "void"])
       ELSE \E stop \in BOOLEAN :
               LET r == [th[t] EXCEPT
                            !.seen = Append(@, Invoked(th[t].list[th[t].i], stop))]
               IN  IF stop
                   THEN Set(t, [Finish(r, "nil", NoId) EXCEPT !.out = "void"])
                   ELSE Set(t, [r EXCEPT !.i = @ + 1])
    /\ UNCHANGED <<networks, clock, netName, endpoints, nlock, epNet, drvNets, drvEps>>

\* ------------------------------------------------------- return to caller
Return(t) ==
    /\ At(t, "ret")
    /\ Set(t, Idle)
    /\ UNCHANGED <<networks, clock, netName, endpoints, nlock, epNet, drvNets, drvEps>>

\* A step of a goroutine among goroutines that interleave freely.
Conc(A) == A /\ UNCHANGED <<pre, hist>>

\* Goroutines creating and deleting networks and endpoints interleave freely.
Next ==
    \E t \in Threads :
        \/ Conc(CallNewNetwork(t))
        \/ Conc(NnLock(t))
        \/ Conc(NnScan(t))
        \/ Conc(NnDriver(t))
        \/ Conc(NnLock2(t))
        \/ Conc(NnStore(t))
        \/ Conc(CallDelete(t))
        \/ Conc(NdLock(t))
        \/ Conc(NdPresent(t))
        \/ Conc(NdNLock(t))
        \/ Conc(NdCount(t))
        \/ Conc(NdCheck(t))
        \/ Conc(NdDriver(t))
        \/ Conc(NdRelock(t))
        \/ Conc(NdRestore(t))
        \/ Conc(CallCreateEndpoint(t))
        \/ Conc(CeDriver(t))
        \/ Conc(CeLock(t))
        \/ Conc(CeStore(t))
        \/ Conc(CallEpDelete(t))
        \/ Conc(EdLock(t))
        \/ Conc(EdPresent(t))
        \/ Conc(EdDriver(t))
        \/ Conc(EdRelock(t))
        \/ Conc(EdRestore(t))
        \/ Conc(Return(t))

Spec == Init /\ [][Next]_vars

\* One call at a time: a call starts only when no other call is running.
OthersIdle(t) == \A u \in Threads \ {t} : th[u].pc = "idle"

Changing == {"NewNetwork", "Delete", "CreateEndpoint", "EpDelete"}

NoTables == [nets |-> {}, eps |-> [n \in NetIds |-> {}], names |-> <<>>]

\* What the caller of a call made in isolation can observe: the tables as
\* the call found them, kept until it returns, and the call of NewNetwork,
\* Delete, CreateEndpoint or Endpoint.Delete that returned last.
Record(t) ==
    /\ pre' = IF At(t, "idle") THEN Snapshot
              ELSE IF At(t, "ret") THEN NoTables ELSE pre
    /\ hist' = IF At(t, "ret") /\ th[t].op \in Changing THEN Summary(th[t]) ELSE hist

Alone(t, A) == OthersIdle(t) /\ A /\ Record(t)

\* Every call, lookups included, made one at a time.
SeqNext ==
    \E t \in Threads :
        \/ Alone(t, CallNewNetwork(t))
        \/ Alone(t, NnLock(t))
        \/ Alone(t, NnScan(t))
        \/ Alone(t, NnDriver(t))
        \/ Alone(t, NnLock2(t))
        \/ Alone(t, NnStore(t))
        \/ Alone(t, CallDelete(t))
        \/ Alone(t, NdLock(t))
        \/ Alone(t, NdPresent(t))
        \/ Alone(t, NdNLock(t))
        \/ Alone(t, NdCount(t))
        \/ Alone(t, NdCheck(t))
        \/ Alone(t, NdDriver(t))
        \/ Alone(t, NdRelock(t))
        \/ Alone(t, NdRestore(t))
        \/ Alone(t, CallCreateEndpoint(t))
        \/ Alone(t, CeDriver(t))
        \/ Alone(t, CeLock(t))
        \/ Alone(t, CeStore(t))
        \/ Alone(t, CallEpDelete(t))
        \/ Alone(t, EdLock(t))
        \/ Alone(t, EdPresent(t))
        \/ Alone(t, EdDriver(t))
        \/ Alone(t, EdRelock(t))
        \/ Alone(t, EdRestore(t))
        \/ Alone(t, Return(t))
        \/ Alone(t, CallNetworkByID(t))
        \/ Alone(t, BiLock(t))
        \/ Alone(t, BiGet(t))
        \/ Alone(t, CallEndpointByID(t))
        \/ Alone(t, BeLock(t))
        \/ Alone(t, BeGet(t))
        \/ Alone(t, CallNetworkByName(t))
        \/ Alone(t, NsLock(t))
        \/ Alone(t, NsCopy(t))
        \/ Alone(t, WnLoop(t))

SeqSpec == Init /\ [][SeqNext]_vars

\* ------------------------------------------------------------- properties
Returned(t, o) == th[t].pc = "ret" /\ th[t].op = o

\* C1: a network leaves the controller's table only at a moment when its
\* endpoint table is empty, whatever CreateEndpoint and Endpoint.Delete calls
\* run at the same time.
C1_RemovedOnlyWhenEmpty ==
    [][\A n \in NetIds :
          (n \in networks /\ n \notin networks') => endpoints[n] = {}]_vars

\* C2: Delete on a registered network with endpoints returns
\* ActiveEndpointsError without calling the driver and leaves both tables as
\* they were; on a registered network with no endpoint it calls the driver,
\* and when the driver succeeds it returns no error and the network is gone
\* from the table.
C2_GuardedDeletion ==
    \A t \in Threads :
        (Returned(t, "Delete") /\ th[t].n \in pre.nets) =>
            IF pre.eps[th[t].n] # {}
            THEN /\ th[t].res = "ActiveEndpointsError"
                 /\ th[t].err = "none"
                 /\ networks = pre.nets
                 /\ endpoints = pre.eps
            ELSE /\ th[t].err # "none"
                 /\ th[t].err = "nil" => (th[t].res = "nil" /\ th[t].n \notin networks)

C2_Witness ==
    \E t \in Threads :
        /\ Returned(t, "Delete")
        /\ th[t].res = "nil"
        /\ th[t].n \in pre.nets
        /\ \E e \in EpHandles : epNet[e] = th[t].n
        /\ hist.op = "EpDelete" /\ hist.res = "nil" /\ hist.n = th[t].n

\* C3: when Driver.DeleteNetwork fails, Delete returns the error and at its
\* return the network is in the table under its id with the name and the
\* endpoints it had, the tables being what they were before the call, so
\* NetworkByID finds it.
C3_DeleteRollback ==
    \A t \in Threads :
        (Returned(t, "Delete") /\ th[t].err = "fail") =>
            /\ th[t].res = "DriverError"
            /\ th[t].n \in networks
            /\ NetworkLookup(th[t].n) = th[t].n
            /\ networks = pre.nets
            /\ endpoints = pre.eps
            /\ netName[th[t].n] = pre.names[th[t].n]

C3_Witness ==
    \E t \in Threads :
        Returned(t, "Delete") /\ th[t].err = "fail" /\ networks = {th[t].n}

\* C4: when Driver.DeleteEndpoint fails, Endpoint.Delete returns the error
\* and at its return the endpoint is in its network's table under its id; an
\* EndpointByID made next returns it and a Delete of the (registered) network
\* made next is refused with ActiveEndpointsError.
C4_EndpointRollback ==
    \A t \in Threads :
        /\ (Returned(t, "EpDelete") /\ th[t].err = "fail") =>
              /\ th[t].res = "DriverError"
              /\ th[t].e \in endpoints[th[t].n]
              /\ endpoints = pre.eps
              /\ networks = pre.nets
        /\ (/\ Returned(t, "EndpointByID")
            /\ hist.op = "EpDelete" /\ hist.err = "fail"
            /\ hist.n = th[t].n /\ hist.e = th[t].e) => th[t].ret = th[t].e
        /\ (/\ Returned(t, "Delete")
            /\ hist.op = "EpDelete" /\ hist.err = "fail"
            /\ hist.n = th[t].n /\ th[t].n \in pre.nets) =>
              th[t].res = "ActiveEndpointsError"

C4_Witness ==
    \E t \in Threads :
        /\ Returned(t, "Delete")
        /\ hist.op = "EpDelete" /\ hist.err = "fail" /\ hist.n = th[t].n
        /\ th[t].res = "ActiveEndpointsError"

\* C5: with one call at a time no two registered networks have the same
\* name, and NewNetwork (with a known driver type) given a name that a
\* registered network has returns NetworkNameError and registers nothing.
C5_UniqueNames ==
    /\ \A n, m \in networks : netName[n] = netName[m] => n = m
    /\ \A t \in Threads :
          (/\ Returned(t, "NewNetwork")
           /\ th[t].res # "ErrInvalidNetworkDriver"
           /\ \E n \in pre.nets : pre.names[n] = th[t].nm) =>
              /\ th[t].res = "NetworkNameError"
              /\ th[t].ret = NoId
              /\ networks = pre.nets
              /\ netName = pre.names

C5_Witness ==
    \E t \in Threads :
        /\ Returned(t, "NewNetwork")
        /\ th[t].res = "NetworkNameError"
        /\ hist.op = "Delete" /\ hist.err = "fail"
        /\ netName[hist.n] = th[t].nm

\* C6: the name scan and the insertion of NewNetwork are two critical
\* sections: the scan leaves the controller lock free, and the insertion
\* stores the network and succeeds whatever was registered in between, so
\* two calls with one name can both succeed (the witness).
C6_ScanThenStore ==
    [][\A t \in Threads :
          /\ (th[t].pc = "nn_scan" /\ th'[t].pc # "nn_scan") => clock' = Free
          /\ (th[t].pc = "nn_store" /\ th'[t].pc # "nn_store") =>
                /\ th'[t].pc = "ret" /\ th'[t].res = "nil"
                /\ th'[t].ret \in networks' \ networks
                /\ netName'[th'[t].ret] = th[t].nm]_vars

C6_Witness ==
    \E n, m \in networks :
        /\ n # m /\ netName[n] = netName[m]
        /\ \A t \in Threads : Returned(t, "NewNetwork") /\ th[t].res = "nil"

\* C7: NetworkByID with the id a successful NewNetwork just returned yields
\* that network; after a successful Delete NetworkByID with that id yields
\* nothing, and NetworkByName with its name yields nothing or another
\* registered network of that name.
C7_LifecycleRoundTrip ==
    \A t \in Threads :
        /\ (/\ Returned(t, "NetworkByID")
            /\ hist.op = "NewNetwork" /\ hist.res = "nil"
            /\ hist.ret = th[t].n) => th[t].ret = hist.ret
        /\ (/\ Returned(t, "NetworkByID")
            /\ hist.op = "Delete" /\ hist.res = "nil"
            /\ hist.n = th[t].n) => th[t].ret = NoId
        /\ (/\ Returned(t, "NetworkByName")
            /\ hist.op = "Delete" /\ hist.res = "nil"
            /\ netName[hist.n] = th[t].nm) =>
              \/ th[t].ret = NoId
              \/ /\ th[t].ret # hist.n
                 /\ th[t].ret \in networks
                 /\ netName[th[t].ret] = th[t].nm

C7_Witness ==
    \E t \in Threads :
        /\ Returned(t, "NetworkByName")
        /\ th[t].nm # ""
        /\ hist.op = "Delete" /\ hist.res = "nil"
        /\ netName[hist.n] = th[t].nm
        /\ networks # {}

\* C8: when Driver.CreateNetwork fails, NewNetwork returns the error and no
\* network, and the table is what it was before the call at every point of
\* the call: the network is never stored.
C8_CreateNetworkFailure ==
    \A t \in Threads :
        th[t].op = "NewNetwork" =>
            /\ th[t].err = "fail" =>
                  /\ th[t].pc = "ret"
                  /\ th[t].res = "DriverError"
                  /\ th[t].ret = NoId
                  /\ networks = pre.nets
                  /\ netName = pre.names
            /\ th[t].pc \in {"nn_lock", "nn_scan", "nn_driver"} =>
                  networks = pre.nets

C8_Witness ==
    \E t \in Threads :
        Returned(t, "NewNetwork") /\ th[t].err = "fail" /\ networks # {}

\* C9: CreateEndpoint stores the endpoint exactly when Driver.CreateEndpoint
\* succeeds: on failure it returns the error and the endpoint table is what
\* it was throughout the call; on success the endpoint is in the table under
\* an id that was in no table, and an EndpointByID made next returns it.
C9_CreateEndpoint ==
    \A t \in Threads :
        /\ th[t].op = "CreateEndpoint" =>
              /\ th[t].err = "fail" =>
                    /\ th[t].pc = "ret"
                    /\ th[t].res = "DriverError"
                    /\ th[t].ret = NoId
                    /\ endpoints = pre.eps
              /\ th[t].pc \in {"ce_driver", "ce_lock", "ce_store"} =>
                    endpoints = pre.eps
              /\ (th[t].pc = "ret" /\ th[t].err = "nil") =>
                    /\ th[t].res = "nil"
                    /\ th[t].ret = th[t].e
                    /\ \A n \in NetIds : th[t].e \notin pre.eps[n]
                    /\ endpoints = [pre.eps EXCEPT ![th[t].n] = @ \cup {th[t].e}]
        /\ (/\ Returned(t, "EndpointByID")
            /\ hist.op = "CreateEndpoint" /\ hist.res = "nil"
            /\ hist.n = th[t].n /\ hist.ret = th[t].e) => th[t].ret = th[t].e

C9_Witness ==
    \E t \in Threads :
        /\ Returned(t, "EndpointByID")
        /\ hist.op = "CreateEndpoint" /\ hist.res = "nil"
        /\ hist.n = th[t].n /\ hist.ret = th[t].e
        /\ th[t].ret = th[t].e

\* C10: Delete on a network that is not in the controller's table (deleted,
\* or being deleted by another caller) returns UnknownNetworkError, calls no
\* driver and changes no table; the test comes before the endpoint count, so
\* it is the result even when the network has endpoints.
C10_UnknownNetwork ==
    [][\A t \in Threads :
          (/\ th[t].pc = "nd_present" /\ th'[t].pc # "nd_present"
           /\ th[t].n \notin networks) =>
              /\ th'[t].pc = "ret"
              /\ th'[t].res = "UnknownNetworkError"
              /\ th'[t].err = "none"
              /\ networks' = networks
              /\ endpoints' = endpoints]_vars

C10_Witness ==
    \E t, u \in Threads :
        /\ Returned(t, "Delete")
        /\ th[t].res = "UnknownNetworkError"
        /\ endpoints[th[t].n] # {}
        /\ th[u].op = "Delete" /\ th[u].pc = "nd_driver" /\ th[u].n = th[t].n

\* C11: Endpoint.Delete on an endpoint that is not in its network's table
\* (deleted, or being deleted by another caller) returns
\* UnknownEndpointError, calls no driver and leaves the table as it is.
C11_UnknownEndpoint ==
    [][\A t \in Threads :
          (/\ th[t].pc = "ed_present" /\ th'[t].pc # "ed_present"
           /\ th[t].e \notin endpoints[th[t].n]) =>
              /\ th'[t].pc = "ret"
              /\ th'[t].res = "UnknownEndpointError"
              /\ th'[t].err = "none"
              /\ endpoints' = endpoints
              /\ networks' = networks]_vars

C11_Witness ==
    \E t, u \in Threads :
        /\ Returned(t, "EpDelete")
        /\ th[t].res = "UnknownEndpointError"
        /\ th[u].op = "EpDelete" /\ th[u].pc = "ed_driver" /\ th[u].e = th[t].e

\* The locks a goroutine holds.
Holds(t) == clock = t \/ \E n \in NetIds : nlock[n] = t

InDriver(t) == th[t].pc \in {"nn_driver", "nd_driver", "ce_driver", "ed_driver"}

\* C14: a goroutine inside a call of Driver.CreateNetwork, DeleteNetwork,
\* CreateEndpoint or DeleteEndpoint holds neither the controller lock nor a
\* network lock.
C14_NoLockInDriver == \A t \in Threads : InDriver(t) => ~Holds(t)

C14_Witness ==
    \E t, u \in Threads :
        /\ th[t].pc = "nd_driver" /\ th[u].pc = "ed_driver"
        /\ clock = Free /\ \A n \in NetIds : nlock[n] = Free

\* No other goroutine is inside NewNetwork.
NoNewNetworkRunning(t) ==
    \A u \in Threads \ {t} :
        ~(th[u].op = "NewNetwork" /\ th[u].pc \notin {"idle", "ret"})

\* The interleavings in which NewNetwork calls never overlap each other;
\* every other call runs concurrently with them.
SerialCreateNext ==
    \E t \in Threads :
        \/ Conc(NoNewNetworkRunning(t) /\ CallNewNetwork(t))
        \/ Conc(NnLock(t))
        \/ Conc(NnScan(t))
        \/ Conc(NnDriver(t))
        \/ Conc(NnLock2(t))
        \/ Conc(NnStore(t))
        \/ Conc(CallDelete(t))
        \/ Conc(NdLock(t))
        \/ Conc(NdPresent(t))
        \/ Conc(NdNLock(t))
        \/ Conc(NdCount(t))
        \/ Conc(NdCheck(t))
        \/ Conc(NdDriver(t))
        \/ Conc(NdRelock(t))
        \/ Conc(NdRestore(t))
        \/ Conc(CallCreateEndpoint(t))
        \/ Conc(CeDriver(t))
        \/ Conc(CeLock(t))
        \/ Conc(CeStore(t))
        \/ Conc(CallEpDelete(t))
        \/ Conc(EdLock(t))
        \/ Conc(EdPresent(t))
        \/ Conc(EdDriver(t))
        \/ Conc(EdRelock(t))
        \/ Conc(EdRestore(t))
        \/ Conc(Return(t))

SerialCreateSpec == Init /\ [][SerialCreateNext]_vars

\* One goroutine changing the tables while another one walks them.
Mutating == "t1"

Walking == "t2"

WalkNext ==
    \/ Conc(CallNewNetwork(Mutating))
    \/ Conc(NnLock(Mutating))
    \/ Conc(NnScan(Mutating))
    \/ Conc(NnDriver(Mutating))
    \/ Conc(NnLock2(Mutating))
    \/ Conc(NnStore(Mutating))
    \/ Conc(CallDelete(Mutating))
    \/ Conc(NdLock(Mutating))
    \/ Conc(NdPresent(Mutating))
    \/ Conc(NdNLock(Mutating))
    \/ Conc(NdCount(Mutating))
    \/ Conc(NdCheck(Mutating))
    \/ Conc(NdDriver(Mutating))
    \/ Conc(NdRelock(Mutating))
    \/ Conc(NdRestore(Mutating))
    \/ Conc(CallCreateEndpoint(Mutating))
    \/ Conc(CeDriver(Mutating))
    \/ Conc(CeLock(Mutating))
    \/ Conc(CeStore(Mutating))
    \/ Conc(CallEpDelete(Mutating))
    \/ Conc(EdLock(Mutating))
    \/ Conc(EdPresent(Mutating))
    \/ Conc(EdDriver(Mutating))
    \/ Conc(EdRelock(Mutating))
    \/ Conc(EdRestore(Mutating))
    \/ Conc(Return(Mutating))
    \/ Conc(CallWalkNetworks(Walking))
    \/ Conc(NsLock(Walking))
    \/ Conc(NsCopy(Walking))
    \/ Conc(WnLoop(Walking))
    \/ Conc(CallWalkEndpoints(Walking))
    \/ Conc(EsLock(Walking))
    \/ Conc(EsCopy(Walking))
    \/ Conc(WeLoop(Walking))
    \/ Conc(Return(Walking))

WalkSpec == Init /\ [][WalkNext]_vars

\* The steps of goroutine t that take a lock: sync.Mutex hands the lock to a
\* goroutine that keeps waiting for it.
Acquire(t) ==
    \/ NnLock(t) \/ NnLock2(t)
    \/ NdLock(t) \/ NdNLock(t) \/ NdRelock(t)
    \/ CeLock(t)
    \/ EdLock(t) \/ EdRelock(t)

\* The steps of goroutine t inside a call that wait for nothing; a driver
\* call is one of them, for a driver whose calls return.
Progress(t) ==
    \/ NnScan(t) \/ NnDriver(t) \/ NnStore(t)
    \/ NdPresent(t) \/ NdCount(t) \/ NdCheck(t) \/ NdDriver(t) \/ NdRestore(t)
    \/ CeDriver(t) \/ CeStore(t)
    \/ EdPresent(t) \/ EdDriver(t) \/ EdRestore(t)

\* The interleavings of Next with at most MaxFairIds networks and endpoints.
FairNext ==
    \E t \in Threads :
        \/ Conc(Stored + Pending < MaxFairIds /\ CallNewNetwork(t))
        \/ Conc(NnLock(t))
        \/ Conc(NnScan(t))
        \/ Conc(NnDriver(t))
        \/ Conc(NnLock2(t))
        \/ Conc(NnStore(t))
        \/ Conc(CallDelete(t))
        \/ Conc(NdLock(t))
        \/ Conc(NdPresent(t))
        \/ Conc(NdNLock(t))
        \/ Conc(NdCount(t))
        \/ Conc(NdCheck(t))
        \/ Conc(NdDriver(t))
        \/ Conc(NdRelock(t))
        \/ Conc(NdRestore(t))
        \/ Conc(Stored + Pending < MaxFairIds /\ CallCreateEndpoint(t))
        \/ Conc(CeDriver(t))
        \/ Conc(CeLock(t))
        \/ Conc(CeStore(t))
        \/ Conc(CallEpDelete(t))
        \/ Conc(EdLock(t))
        \/ Conc(EdPresent(t))
        \/ Conc(EdDriver(t))
        \/ Conc(EdRelock(t))
        \/ Conc(EdRestore(t))
        \/ Conc(Return(t))

FairSpec ==
    /\ Init /\ [][FairNext]_vars
    /\ \A t \in Threads : WF_vars(Conc(Progress(t))) /\ SF_vars(Conc(Acquire(t)))

\* A network, an endpoint, whose driver delete call has succeeded.
NetDeleted(n) == n \in Handles /\ n \notin drvNets

EpDeleted(e) == e \in EpHandles /\ e \notin drvEps

\* C16: Deleted is terminal and is entered from PendingDelete only: a
\* network (an endpoint) whose driver delete call has succeeded stays
\* deleted and is in its table in no later state, and it was out of its
\* table when the driver call succeeded.
C16_DeletedIsTerminal ==
    [][/\ \A n \in NetIds :
             /\ NetDeleted(n) => NetDeleted(n)'
             /\ NetDeleted(n)' => n \notin networks'
             /\ (~NetDeleted(n) /\ NetDeleted(n)') => n \notin networks
       /\ \A e \in EpIds :
             /\ EpDeleted(e) => EpDeleted(e)'
             /\ EpDeleted(e)' => \A n \in NetIds : e \notin endpoints'[n]
             /\ (~EpDeleted(e) /\ EpDeleted(e)') =>
                   \A n \in NetIds : e \notin endpoints[n]]_vars

C16_Witness ==
    \E t, u \in Threads :
        /\ Returned(t, "Delete") /\ th[t].res = "UnknownNetworkError"
        /\ NetDeleted(th[t].n)
        /\ Returned(u, "EpDelete") /\ th[u].res = "UnknownEndpointError"
        /\ EpDeleted(th[u].e)

DeletingNet(t, n) ==
    th[t].op = "Delete" /\ th[t].n = n
    /\ th[t].pc \in {"nd_driver", "nd_relock", "nd_restore"}

DeletingEp(t, e) ==
    th[t].op = "EpDelete" /\ th[t].e = e
    /\ th[t].pc \in {"ed_driver", "ed_relock", "ed_restore"}

\* C18: for every network id and endpoint id at most one Delete is between
\* its removal from the table and the end of its rollback, the entity of a
\* driver delete call in flight is out of its table and one the driver
\* still holds, so the driver deletes it successfully at most once.
C18_OneDeleteInFlight ==
    \A t \in Threads :
        /\ \A n \in NetIds :
              DeletingNet(t, n) =>
                  /\ n \in drvNets
                  /\ n \notin networks
                  /\ \A u \in Threads \ {t} : ~DeletingNet(u, n)
        /\ \A e \in EpIds :
              DeletingEp(t, e) =>
                  /\ e \in drvEps
                  /\ e \notin endpoints[th[t].n]
                  /\ \A u \in Threads \ {t} : ~DeletingEp(u, e)

C18_Witness ==
    \E t, u \in Threads :
        /\ Returned(t, "Delete") /\ th[t].res = "UnknownNetworkError"
        /\ th[u].pc = "nd_relock" /\ th[u].n = th[t].n

Quiescent == \A t \in Threads : th[t].pc \in {"idle", "ret"}

StoredEndpoints == UNION {endpoints[n] : n \in NetIds}

\* C19: every registered network and every endpoint in a table is held by
\* the driver, and when no call is running the driver holds nothing else.
C19_RegistryMirrorsDriver ==
    /\ networks \subseteq drvNets
    /\ StoredEndpoints \subseteq drvEps
    /\ Quiescent => (networks = drvNets /\ StoredEndpoints = drvEps)

C19_Witness ==
    /\ Quiescent
    /\ networks # {} /\ StoredEndpoints # {}
    /\ \E n \in NetIds : NetDeleted(n)
    /\ \E t \in Threads : Returned(t, "EpDelete") /\ th[t].err = "fail"

\* C20: when no call is running, a network the driver has deleted holds no
\* endpoint in its table.
C20_NoEndpointInDeletedNetwork ==
    Quiescent => \A n \in NetIds : NetDeleted(n) => endpoints[n] = {}

\* C17: when no two NewNetwork calls overlap, no two networks in the
\* controller's table have the same name.
C17_UniqueNamesSerialCreate ==
    \A n, m \in networks : netName[n] = netName[m] => n = m

WalkOps == {"WalkNetworks", "WalkEndpoints"}

Stopped(r) == \E k \in 1..Len(r.seen) : r.seen[k].stop

\* r is the state of a walk that has its list
WalkedInOrder(r) ==
    /\ Len(r.seen) <= Len(r.list)
    /\ \A k \in 1..Len(r.seen) : r.seen[k].elt = r.list[k]
    /\ \A k \in 1..(Len(r.seen) - 1) : ~r.seen[k].stop
    /\ Stopped(r) => r.pc = "ret"
    /\ (r.pc = "ret" /\ ~Stopped(r)) => Len(r.seen) = Len(r.list)

\* C12: the list a walk goes through is the content of the table at one
\* moment at which the walking goroutine holds the table's lock, each element
\* once; whatever happens to the table afterwards, the walker is invoked on
\* the elements of that list in turn, on none after an invocation that
\* returned true, and on all of them when no invocation returned true.
C12_WalkOverSnapshot ==
    [][\A t \in Threads :
          /\ (th[t].pc = "ns_copy" /\ th'[t].pc # "ns_copy") =>
                /\ clock = t
                /\ {th'[t].list[k] : k \in 1..Len(th'[t].list)} = networks
                /\ Len(th'[t].list) = Cardinality(networks)
          /\ (th[t].pc = "es_copy" /\ th'[t].pc # "es_copy") =>
                /\ nlock[th[t].n] = t
                /\ {th'[t].list[k] : k \in 1..Len(th'[t].list)} = endpoints[th[t].n]
                /\ Len(th'[t].list) = Cardinality(endpoints[th[t].n])
          /\ (th[t].op \in WalkOps /\ th[t].pc \in {"wn_loop", "we_loop"}) =>
                /\ th'[t].list = th[t].list
                /\ WalkedInOrder(th'[t])]_vars

C12_Witness ==
    \E t \in Threads :
        /\ Returned(t, "WalkNetworks")
        /\ Len(th[t].seen) = 2 /\ ~Stopped(th[t])
        /\ \E k \in 1..2 : th[t].list[k] \notin networks
        /\ \E n \in networks : \A k \in 1..2 : th[t].list[k] # n

\* C13 as stated: WalkNetworks and WalkEndpoints both return a boolean, true
\* exactly when an invocation of the walker returned true.
C13_BothReturnStopped ==
    \A t \in Threads :
        (th[t].op \in WalkOps /\ th[t].pc = "ret") =>
            th[t].out = (IF Stopped(th[t]) THEN "true" ELSE "false")

\* C13, amended: WalkNetworks returns a boolean, true exactly when an
\* invocation of the walker returned true; WalkEndpoints returns no value.
C13_WalkNetworksReturnsStopped ==
    \A t \in Threads :
        /\ Returned(t, "WalkNetworks") =>
              th[t].out = (IF Stopped(th[t]) THEN "true" ELSE "false")
        /\ Returned(t, "WalkEndpoints") => th[t].out = "void"

C13_Witness ==
    \E t \in Threads :
        /\ Returned(t, "WalkNetworks")
        /\ th[t].out = "true"
        /\ Len(th[t].seen) = 2 /\ ~th[t].seen[1].stop /\ th[t].seen[2].stop

ControllerLockPcs == {"nn_lock", "nn_lock2", "nd_lock", "nd_relock", "bi_lock", "ns_lock"}

NetworkLockPcs == {"nd_nlock", "ce_lock", "ed_lock", "ed_relock", "be_lock", "es_lock"}

\* goroutine t is at a Lock() call on a mutex another goroutine holds
Blocked(t) ==
    \/ th[t].pc \in ControllerLockPcs /\ clock # Free
    \/ th[t].pc \in NetworkLockPcs /\ nlock[th[t].n] # Free

Running(t) == th[t].pc \notin {"idle", "ret"}

LockOrder ==
    \A t \in Threads :
        /\ th[t].pc \in ControllerLockPcs => \A n \in NetIds : nlock[n] # t
        /\ (th[t].pc \in NetworkLockPcs /\ clock = t) => th[t].pc = "nd_nlock"
        /\ (clock = t /\ \E n \in NetIds : nlock[n] = t) => th[t].op = "Delete"
        /\ Cardinality({n \in NetIds : nlock[n] = t}) <= 1

NoDeadlock ==
    (\E t \in Threads : Blocked(t)) => \E u \in Threads : Running(u) /\ ~Blocked(u)

\* C15: no goroutine asks for the controller lock while it holds a network
\* lock, and the only goroutine that holds both is one inside
\* network.Delete, which took the controller lock first; whenever a
\* goroutine waits for a lock, some goroutine inside a call can take a step;
\* and, with locks handed to waiting goroutines and driver calls that
\* return, every call that has started returns.
C15_LockOrderAndProgress ==
    /\ [](LockOrder /\ NoDeadlock)
    /\ \A t \in Threads : Running(t) ~> (th[t].pc = "ret")

C15_Witness ==
    \E t, u \in Threads :
        /\ th[t].pc = "nd_nlock" /\ clock = t /\ nlock[th[t].n] = u
        /\ th[u].pc = "ed_restore"

====
